---- MODULE Spec2Model ----
(***************************************************************************)
(* FTPFileWatcher (src/index.ts): a chokidar watcher calls                 *)
(* handleFileChange for every add/change event; each call is an async      *)
(* task that decides, waits a settle delay and runs uploadFile's retry     *)
(* loop.  JavaScript runs one synchronous segment at a time, so every      *)
(* action below is the code between two awaits.                            *)
(***************************************************************************)
EXTENDS Integers, Sequences, FiniteSets, TLC

VARIABLES
    env,            \* process.env: the FTP_* retry options, Unset or a number
    retryConfig,    \* this.retryConfig, built by the constructor
    uploadedFiles,  \* this.uploadedFiles: a JS Set, kept in insertion order
    disk,           \* uploaded-files.json on stable storage
    tasks,          \* the handleFileChange invocations of this process, in arrival order
    procState,      \* "running" | "closing" (SIGINT taken, watcher.close() pending)
                    \* | "exited" | "crashed" (an error escaped a handler)
    shutdown,       \* history of the SIGINT handler: what it saw and wrote
    loadedAtStart,  \* history: what loadUploadedFiles returned in this process
    confirmed,      \* history: paths some upload transferred successfully, ever
    lastOutcome,    \* history: per path, how its most recently finished upload ended
    persistFailed,  \* history: some writeFileSync of the ledger threw
    restarts,       \* history: number of process restarts
    attemptNumber,  \* retry-policy probe: the argument of calculateRetryDelay
    delayMs,        \* retry-policy probe: its result, a rational <<num, den>>
    prevDelayMs     \* retry-policy probe: the result for attemptNumber - 1

vars == <<env, retryConfig, uploadedFiles, disk, tasks, procState, shutdown, loadedAtStart,
          confirmed, lastOutcome, persistFailed, restarts,
          attemptNumber, delayMs, prevDelayMs>>

----------------------------------------------------------------------------
\* Bounds of the model.

MaxTasks == 2          \* handleFileChange invocations per process
MaxDirFailures == 1    \* client.ensureDir rejections one task meets
MaxSignals == 2        \* SIGINT deliveries per process
MaxRestarts == 1       \* process restarts
MaxEnvRetries == 2     \* largest FTP_MAX_RETRIES value enumerated
MaxAttemptNumber == 4  \* largest argument given to calculateRetryDelay
MaxEnvDelay == 3       \* largest FTP_RETRY_DELAY_MS value enumerated
MaxEnvMaxDelay == 6    \* largest FTP_MAX_RETRY_DELAY_MS value enumerated
MaxEnvMultiplier == 5  \* largest FTP_BACKOFF_MULTIPLIER value enumerated, in halves

\* Program constants.

DefaultMaxRetries == 3
DefaultInitialDelayMs == 1000
DefaultMaxDelayMs == 30000
DefaultBackoffMultiplier == 2

Unset == -1            \* an environment variable that is not set
MultDen == 2           \* multipliers are written in halves: 3 stands for 1.5

Paths == {"a.txt", "sub/b.txt"}
Events == {"add", "change"}
\* what the file system answers at decision time: existsSync false; a regular
\* file; not a regular file; or existsSync true and statSync throwing (the path
\* vanished in between, or may not be read)
Kinds == {"absent", "file", "dir", "unstatable"}

----------------------------------------------------------------------------
\* Helpers.

Range(s) == {s[i] : i \in DOMAIN s}

\* path.dirname(relativePath) !== '.'
HasRemoteDir(p) == p = "sub/b.txt"

\* parseInt(process.env.X) || dflt : NaN (unset) and 0 are falsy
ParseOr(v, dflt) == IF v = Unset \/ v = 0 THEN dflt ELSE v

\* the retryConfig object of the constructor; backoffMultiplier is kept in halves
BuildRetryConfig(e) ==
    [maxRetries        |-> ParseOr(e.maxRetries, DefaultMaxRetries),
     initialDelayMs    |-> ParseOr(e.initialDelayMs, DefaultInitialDelayMs),
     maxDelayMs        |-> ParseOr(e.maxDelayMs, DefaultMaxDelayMs),
     backoffMultiplier |-> ParseOr(e.backoffMultiplier, DefaultBackoffMultiplier * MultDen)]

----------------------------------------------------------------------------
\* The upload ledger: this.uploadedFiles and uploaded-files.json.

\* new Set(array): duplicates dropped, first occurrence kept
RECURSIVE NewSet(_)
NewSet(arr) ==
    IF arr = <<>> THEN <<>>
    ELSE LET front == NewSet(SubSeq(arr, 1, Len(arr) - 1))
             last  == arr[Len(arr)]
         IN IF last \in Range(front) THEN front ELSE Append(front, last)

SetAddOverwriting(set, p) == <<p>>

\* Set.prototype.add
SetAdd(set, p) == IF p \in Range(set) THEN set ELSE Append(set, p)

\* JSON.stringify([...set], null, 2) written by writeFileSync
FileOf(set) == [kind |-> "json", data |-> set]

loadUploadedFilesEmpty(d) == <<>>

\* What uploaded-files.json can be when the constructor reads it:
\*   "missing"     existsSync is false
\*   "unreadable"  readFileSync throws
\*   "corrupt"     JSON.parse throws
\*   "json"        a JSON array of strings, data its elements
\*   "string"      a JSON string, data its characters
\*   "null"        the JSON value null
\*   "notIterable" a JSON number, boolean or object
FileKinds == {"missing", "unreadable", "corrupt", "json", "string", "null", "notIterable"}

\* loadUploadedFiles, new Set<string>(JSON.parse(data)) inside try/catch: a
\* throw of readFileSync, of JSON.parse or of the Set constructor (a value that
\* is not iterable) gives the empty set; new Set(null) is empty; the Set of a
\* string holds its characters
loadUploadedFiles(d) ==
    CASE d.kind = "json"   -> NewSet(d.data)
      [] d.kind = "string" -> NewSet(d.data)
      [] OTHER             -> <<>>

\* saveUploadedFiles: writeFileSync either replaces the file, or throws before
\* opening it (file untouched), or throws after truncating it; the error is logged
WriteOutcomes == {"ok", "untouched", "truncated"}
saveUploadedFiles(set, d, w) ==
    CASE w = "ok"        -> FileOf(set)
      [] w = "untouched" -> d
      [] w = "truncated" -> [kind |-> "corrupt", data |-> <<>>]

----------------------------------------------------------------------------
\* The retry policy.

RECURSIVE Pow(_, _)
Pow(b, n) == IF n = 0 THEN 1 ELSE b * Pow(b, n - 1)

\* Math.min on rationals <<num, den>>
RatLeq(x, y) == x[1] * y[2] <= y[1] * x[2]
RatMin(x, y) == IF RatLeq(x, y) THEN x ELSE y

calculateRetryDelayOffByOne(cfg, n) ==
    LET delay == <<cfg.initialDelayMs * Pow(cfg.backoffMultiplier, n + 1), Pow(MultDen, n + 1)>>
    IN RatMin(delay, <<cfg.maxDelayMs, 1>>)

\* calculateRetryDelay(attemptNumber)
calculateRetryDelay(cfg, n) ==
    LET delay == <<cfg.initialDelayMs * Pow(cfg.backoffMultiplier, n), Pow(MultDen, n)>>
    IN RatMin(delay, <<cfg.maxDelayMs, 1>>)

\* line 132 negated: this attempt was the last one of the loop
LastAttemptEarly(cfg, attempt) == ~(attempt + 1 < cfg.maxRetries)
LastAttempt(cfg, attempt) == ~(attempt < cfg.maxRetries)

----------------------------------------------------------------------------
\* Tasks.

\* the process runs its callbacks: before and after SIGINT, until process.exit
Alive == {"running", "closing"}

Active == {"settle", "access", "ensureDir", "uploadFrom", "backoff"}
Terminal == {"skipped", "succeeded", "exhausted"}

DecideIgnoringLedger(kind, event, inLedger) ==
    IF kind = "absent" THEN "skipped"
    ELSE IF kind # "file" THEN "skipped"
    ELSE "settle"

DecideIgnoringEvent(kind, event, inLedger) ==
    IF kind = "absent" THEN "skipped"
    ELSE IF kind # "file" THEN "skipped"
    ELSE IF inLedger THEN "skipped"
    ELSE "settle"

DecideWithoutStat(kind, event, inLedger) ==
    IF kind = "absent" THEN "skipped"
    ELSE IF inLedger /\ event # "change" THEN "skipped"
    ELSE "settle"

\* handleFileChange's decision, lines 150-164; a throw of statSync is caught at
\* line 173 and ends the call like a skip
Decide(kind, event, inLedger) ==
    IF kind = "absent" THEN "skipped"
    ELSE IF kind = "unstatable" THEN "skipped"
    ELSE IF kind # "file" THEN "skipped"
    ELSE IF inLedger /\ event # "change" THEN "skipped"
    ELSE "settle"

NewTask(p, ev, kind) ==
    LET inLedger == p \in Range(uploadedFiles)
        pc == Decide(kind, ev, inLedger)
    IN [path |-> p, event |-> ev, kind |-> kind, inLedger |-> inLedger,
        pc |-> pc, settled |-> (pc = "settle"), attempt |-> 0, calls |-> 0,
        client |-> "none", clientId |-> -1, closes |-> 0,
        wrote |-> FALSE, saveFailed |-> FALSE,
        delay |-> <<0, 1>>, sleeps |-> <<>>, warnings |-> 0, dirWarnings |-> 0,
        error |-> IF kind = "unstatable" THEN "logged" ELSE "none",
        afterAbandon |-> (\E j \in DOMAIN tasks : tasks[j].pc = "exhausted")]

\* no SIGINT taken yet
NoShutdown == [signalled |-> FALSE, ledger |-> {}, saves |-> 0, failed |-> FALSE]

ledgerVars == <<uploadedFiles, disk, loadedAtStart, confirmed, persistFailed>>
probeVars == <<attemptNumber, delayMs, prevDelayMs>>
configVars == <<env, retryConfig>>

----------------------------------------------------------------------------
\* Actions.

\* watcher.on('add' | 'change'): the synchronous head of handleFileChange
HandleFileChange(p, ev, kind) ==
    /\ procState = "running"
    /\ Len(tasks) < MaxTasks
    /\ tasks' = Append(tasks, NewTask(p, ev, kind))
    /\ UNCHANGED <<ledgerVars, lastOutcome, procState, shutdown, restarts, configVars, probeVars>>

SettleDoneSerialized(i) ==
    /\ procState \in Alive
    /\ i \in DOMAIN tasks
    /\ tasks[i].pc = "settle"
    /\ \A j \in DOMAIN tasks : j # i => tasks[j].pc \notin Active
    /\ tasks' = [tasks EXCEPT ![i].pc = "access", ![i].attempt = 0,
                              ![i].calls = @ + 1, ![i].client = "open",
                              ![i].clientId = 0]
    /\ UNCHANGED <<ledgerVars, lastOutcome, procState, shutdown, restarts, configVars, probeVars>>

\* the settle timer fires: uploadFile starts attempt 0 (new Client, client.access)
SettleDone(i) ==
    /\ procState \in Alive
    /\ i \in DOMAIN tasks
    /\ tasks[i].pc = "settle"
    /\ tasks' = [tasks EXCEPT ![i].pc = "access", ![i].attempt = 0,
                              ![i].calls = @ + 1, ![i].client = "open",
                              ![i].clientId = 0]
    /\ UNCHANGED <<ledgerVars, lastOutcome, procState, shutdown, restarts, configVars, probeVars>>

\* client.access resolved: ensureDir when the path has a directory, else uploadFrom
AccessOk(i) ==
    /\ procState \in Alive
    /\ i \in DOMAIN tasks
    /\ tasks[i].pc = "access"
    /\ tasks' = [tasks EXCEPT ![i].pc =
                    IF HasRemoteDir(tasks[i].path) THEN "ensureDir" ELSE "uploadFrom"]
    /\ UNCHANGED <<ledgerVars, lastOutcome, procState, shutdown, restarts, configVars, probeVars>>

EnsureDirDoneFatal(i, ok) ==
    /\ procState \in Alive
    /\ i \in DOMAIN tasks
    /\ tasks[i].pc = "ensureDir"
    /\ ~ok => tasks[i].dirWarnings < MaxDirFailures
    /\ tasks' = IF ok THEN [tasks EXCEPT ![i].pc = "uploadFrom"]
                ELSE [tasks EXCEPT ![i].pc = "backoff", ![i].attempt = @ + 1,
                                   ![i].closes = @ + 1, ![i].client = "idle",
                                   ![i].clientId = tasks[i].attempt + 1,
                                   ![i].warnings = @ + 1, ![i].dirWarnings = @ + 1]
    /\ UNCHANGED <<ledgerVars, lastOutcome, procState, shutdown, restarts, configVars, probeVars>>

\* client.ensureDir resolved or rejected: a rejection is only warned about
EnsureDirDone(i, ok) ==
    /\ procState \in Alive
    /\ i \in DOMAIN tasks
    /\ tasks[i].pc = "ensureDir"
    /\ ~ok => tasks[i].dirWarnings < MaxDirFailures
    /\ tasks' = [tasks EXCEPT ![i].pc = "uploadFrom",
                              ![i].warnings = IF ok THEN @ ELSE @ + 1,
                              ![i].dirWarnings = IF ok THEN @ ELSE @ + 1]
    /\ UNCHANGED <<ledgerVars, lastOutcome, procState, shutdown, restarts, configVars, probeVars>>

UploadOkWithoutReturn(i, w) ==
    /\ procState \in Alive
    /\ i \in DOMAIN tasks
    /\ tasks[i].pc = "uploadFrom"
    /\ uploadedFiles' = SetAdd(uploadedFiles, tasks[i].path)
    /\ disk' = saveUploadedFiles(uploadedFiles', disk, w)
    /\ persistFailed' = (persistFailed \/ w # "ok")
    /\ confirmed' = confirmed \cup {tasks[i].path}
    /\ lastOutcome' = [lastOutcome EXCEPT ![tasks[i].path] = "succeeded"]
    /\ tasks' = [tasks EXCEPT ![i].wrote = TRUE, ![i].client = "closed",
                              ![i].pc = IF LastAttempt(retryConfig, tasks[i].attempt)
                                        THEN "succeeded" ELSE "backoff",
                              ![i].attempt = IF LastAttempt(retryConfig, tasks[i].attempt)
                                             THEN @ ELSE @ + 1]
    /\ shutdown' = [shutdown EXCEPT !.failed = @ \/ (shutdown.signalled /\ w # "ok")]
    /\ UNCHANGED <<loadedAtStart, procState, restarts, configVars, probeVars>>

UploadOkSaveThrows(i, w) ==
    /\ procState \in Alive
    /\ i \in DOMAIN tasks
    /\ tasks[i].pc = "uploadFrom"
    /\ uploadedFiles' = SetAdd(uploadedFiles, tasks[i].path)
    /\ disk' = saveUploadedFiles(uploadedFiles', disk, w)
    /\ persistFailed' = (persistFailed \/ w # "ok")
    /\ confirmed' = confirmed \cup {tasks[i].path}
    /\ lastOutcome' = [lastOutcome EXCEPT ![tasks[i].path] =
                          IF w = "ok" THEN "succeeded" ELSE "exhausted"]
    /\ tasks' = [tasks EXCEPT ![i].pc = IF w = "ok" THEN "succeeded" ELSE "exhausted",
                              ![i].error = IF w = "ok" THEN @ ELSE "logged",
                              ![i].wrote = TRUE, ![i].saveFailed = (w # "ok"),
                              ![i].client = "closed", ![i].closes = @ + 1]
    /\ shutdown' = [shutdown EXCEPT !.failed = @ \/ (shutdown.signalled /\ w # "ok")]
    /\ UNCHANGED <<loadedAtStart, procState, restarts, configVars, probeVars>>

\* client.uploadFrom resolved: lines 119-126, add to the set, save, close, return
UploadOk(i, w) ==
    /\ procState \in Alive
    /\ i \in DOMAIN tasks
    /\ tasks[i].pc = "uploadFrom"
    /\ uploadedFiles' = SetAdd(uploadedFiles, tasks[i].path)
    /\ disk' = saveUploadedFiles(uploadedFiles', disk, w)
    /\ persistFailed' = (persistFailed \/ w # "ok")
    /\ confirmed' = confirmed \cup {tasks[i].path}
    /\ lastOutcome' = [lastOutcome EXCEPT ![tasks[i].path] = "succeeded"]
    /\ tasks' = [tasks EXCEPT ![i].pc = "succeeded", ![i].wrote = TRUE,
                              ![i].saveFailed = (w # "ok"),
                              ![i].client = "closed", ![i].closes = @ + 1]
    /\ shutdown' = [shutdown EXCEPT !.failed = @ \/ (shutdown.signalled /\ w # "ok")]
    /\ UNCHANGED <<loadedAtStart, procState, restarts, configVars, probeVars>>

RetryableFailReusingClient(i) ==
    /\ procState \in Alive
    /\ i \in DOMAIN tasks
    /\ tasks[i].pc \in {"access", "uploadFrom"}
    /\ ~LastAttempt(retryConfig, tasks[i].attempt)
    /\ tasks' = [tasks EXCEPT ![i].pc = "backoff", ![i].attempt = @ + 1,
                              ![i].warnings = @ + 1,
                              ![i].delay = calculateRetryDelay(retryConfig, tasks[i].attempt),
                              ![i].sleeps = Append(@, calculateRetryDelay(retryConfig,
                                                                          tasks[i].attempt))]
    /\ UNCHANGED <<ledgerVars, lastOutcome, procState, shutdown, restarts, configVars, probeVars>>

RetryableFailNoSleep(i) ==
    /\ procState \in Alive
    /\ i \in DOMAIN tasks
    /\ tasks[i].pc \in {"access", "uploadFrom"}
    /\ ~LastAttempt(retryConfig, tasks[i].attempt)
    /\ tasks' = [tasks EXCEPT ![i].pc = "access", ![i].attempt = @ + 1,
                              ![i].calls = @ + 1,
                              ![i].closes = @ + 1, ![i].warnings = @ + 1,
                              ![i].client = "open", ![i].clientId = tasks[i].attempt + 1]
    /\ UNCHANGED <<ledgerVars, lastOutcome, procState, shutdown, restarts, configVars, probeVars>>

\* client.access or client.uploadFrom rejected with attempt < maxRetries: lines
\* 128-133, then the loop's next iteration up to its sleep
RetryableFail(i) ==
    /\ procState \in Alive
    /\ i \in DOMAIN tasks
    /\ tasks[i].pc \in {"access", "uploadFrom"}
    /\ ~LastAttempt(retryConfig, tasks[i].attempt)
    /\ tasks' = [tasks EXCEPT ![i].pc = "backoff", ![i].attempt = @ + 1,
                              ![i].closes = @ + 1, ![i].warnings = @ + 1,
                              ![i].client = "idle", ![i].clientId = tasks[i].attempt + 1,
                              ![i].delay = calculateRetryDelay(retryConfig, tasks[i].attempt),
                              ![i].sleeps = Append(@, calculateRetryDelay(retryConfig,
                                                                          tasks[i].attempt))]
    /\ UNCHANGED <<ledgerVars, lastOutcome, procState, shutdown, restarts, configVars, probeVars>>

FinalFailEvicting(i) ==
    /\ procState \in Alive
    /\ i \in DOMAIN tasks
    /\ tasks[i].pc \in {"access", "uploadFrom"}
    /\ LastAttempt(retryConfig, tasks[i].attempt)
    /\ tasks' = [tasks EXCEPT ![i].pc = "exhausted", ![i].client = "closed",
                              ![i].closes = @ + 1, ![i].error = "logged"]
    /\ lastOutcome' = [lastOutcome EXCEPT ![tasks[i].path] = "exhausted"]
    /\ uploadedFiles' = SelectSeq(uploadedFiles, LAMBDA q : q # tasks[i].path)
    /\ UNCHANGED <<disk, loadedAtStart, confirmed, persistFailed,
                   procState, shutdown, restarts, configVars, probeVars>>

FinalFailEscapes(i) ==
    /\ procState \in Alive
    /\ i \in DOMAIN tasks
    /\ tasks[i].pc \in {"access", "uploadFrom"}
    /\ LastAttempt(retryConfig, tasks[i].attempt)
    /\ tasks' = [tasks EXCEPT ![i].pc = "exhausted", ![i].client = "closed",
                              ![i].error = "escaped"]
    /\ lastOutcome' = [lastOutcome EXCEPT ![tasks[i].path] = "exhausted"]
    /\ procState' = "crashed"
    /\ UNCHANGED <<ledgerVars, shutdown, restarts, configVars, probeVars>>

\* the rejection of the last attempt: lines 134-137 throw, and the catch of
\* handleFileChange (lines 173-175) logs the error and returns
FinalFail(i) ==
    /\ procState \in Alive
    /\ i \in DOMAIN tasks
    /\ tasks[i].pc \in {"access", "uploadFrom"}
    /\ LastAttempt(retryConfig, tasks[i].attempt)
    /\ tasks' = [tasks EXCEPT ![i].pc = "exhausted", ![i].client = "closed",
                              ![i].closes = @ + 1, ![i].error = "logged"]
    /\ lastOutcome' = [lastOutcome EXCEPT ![tasks[i].path] = "exhausted"]
    /\ UNCHANGED <<ledgerVars, procState, shutdown, restarts, configVars, probeVars>>

BackoffDoneRestartingLoop(i) ==
    /\ procState \in Alive
    /\ i \in DOMAIN tasks
    /\ tasks[i].pc = "backoff"
    /\ tasks' = [tasks EXCEPT ![i].pc = "access", ![i].calls = @ + 1,
                              ![i].attempt = 0, ![i].client = "open"]
    /\ UNCHANGED <<ledgerVars, lastOutcome, procState, shutdown, restarts, configVars, probeVars>>

\* the backoff timer fires: client.access of the next attempt
BackoffDone(i) ==
    /\ procState \in Alive
    /\ i \in DOMAIN tasks
    /\ tasks[i].pc = "backoff"
    /\ tasks' = [tasks EXCEPT ![i].pc = "access", ![i].calls = @ + 1,
                              ![i].client = "open"]
    /\ UNCHANGED <<ledgerVars, lastOutcome, procState, shutdown, restarts, configVars, probeVars>>

SigintWithoutSave(w) ==
    /\ procState \in Alive
    /\ shutdown.saves < MaxSignals
    /\ shutdown' = [shutdown EXCEPT !.signalled = TRUE, !.ledger = Range(uploadedFiles)]
    /\ procState' = "closing"
    /\ UNCHANGED <<ledgerVars, lastOutcome, tasks, restarts, configVars, probeVars>>

\* the SIGINT handler, lines 207-212: saveUploadedFiles(), then watcher.close(),
\* whose promise is still pending when the handler returns; a closed watcher
\* emits no further event, the uploads in flight go on
Sigint(w) ==
    /\ procState \in Alive
    /\ shutdown.saves < MaxSignals
    /\ disk' = saveUploadedFiles(uploadedFiles, disk, w)
    /\ persistFailed' = (persistFailed \/ w # "ok")
    /\ shutdown' = [signalled |-> TRUE, ledger |-> Range(uploadedFiles),
                    saves |-> shutdown.saves + 1,
                    failed |-> shutdown.failed \/ w # "ok"]
    /\ procState' = "closing"
    /\ UNCHANGED <<uploadedFiles, loadedAtStart, confirmed, lastOutcome, tasks,
                   restarts, configVars, probeVars>>

\* watcher.close() resolved: process.exit(0), line 211
WatcherClosed ==
    /\ procState = "closing"
    /\ procState' = "exited"
    /\ UNCHANGED <<ledgerVars, lastOutcome, tasks, shutdown, restarts, configVars, probeVars>>

\* the process is killed and started again: the constructor loads the ledger
\* file and rebuilds retryConfig; the tasks of the old process are gone
Restart ==
    /\ restarts < MaxRestarts
    /\ restarts' = restarts + 1
    /\ tasks' = <<>>
    /\ procState' = "running"
    /\ uploadedFiles' = loadUploadedFiles(disk)
    /\ loadedAtStart' = loadUploadedFiles(disk)
    /\ retryConfig' = BuildRetryConfig(env)
    /\ shutdown' = NoShutdown
    /\ UNCHANGED <<env, disk, confirmed, lastOutcome, persistFailed, probeVars>>

----------------------------------------------------------------------------
\* Specifications.

\* FTP_MAX_RETRIES of the task model: not set, or a positive number
EnvRetries == {Unset} \cup (1 .. MaxEnvRetries)

UnsetEnv == [maxRetries |-> Unset, initialDelayMs |-> Unset,
             maxDelayMs |-> Unset, backoffMultiplier |-> Unset]

\* the state after construction with environment e and ledger file d
InitFrom(e, d) ==
    /\ env = e
    /\ retryConfig = BuildRetryConfig(e)
    /\ disk = d
    /\ uploadedFiles = loadUploadedFiles(disk)
    /\ loadedAtStart = uploadedFiles
    /\ tasks = <<>>
    /\ procState = "running"
    /\ shutdown = NoShutdown
    /\ confirmed = {}
    /\ lastOutcome = [p \in Paths |-> "none"]
    /\ persistFailed = FALSE
    /\ restarts = 0
    /\ attemptNumber = 0
    /\ prevDelayMs = calculateRetryDelay(retryConfig, 0)
    /\ delayMs = calculateRetryDelay(retryConfig, 0)

\* a first start: no ledger file yet
InitWith(e) == InitFrom(e, [kind |-> "missing", data |-> <<>>])

Init == \E r \in EnvRetries : InitWith([UnsetEnv EXCEPT !.maxRetries = r])

Next ==
    \/ \E p \in Paths, ev \in Events, kind \in Kinds : HandleFileChange(p, ev, kind)
    \/ \E i \in 1 .. MaxTasks : SettleDone(i)
    \/ \E i \in 1 .. MaxTasks : AccessOk(i)
    \/ \E i \in 1 .. MaxTasks, ok \in BOOLEAN : EnsureDirDone(i, ok)
    \/ \E i \in 1 .. MaxTasks, w \in WriteOutcomes : UploadOk(i, w)
    \/ \E i \in 1 .. MaxTasks : RetryableFail(i)
    \/ \E i \in 1 .. MaxTasks : FinalFail(i)
    \/ \E i \in 1 .. MaxTasks : BackoffDone(i)
    \/ Restart

Spec == Init /\ [][Next]_vars

\* setTimeout callbacks are run by the event loop: a pending settle or backoff
\* timer of a living process eventually fires
FairSpec ==
    /\ Spec
    /\ \A i \in 1 .. MaxTasks : WF_vars(SettleDone(i)) /\ WF_vars(BackoffDone(i))

\* The retry policy on its own: every retry configuration the constructor can
\* build from small FTP_* values, and the delays of the successive retries as
\* uploadFile asks for them (calculateRetryDelay(attempt - 1), attempt = 1, 2, ...).
InitBackoff ==
    \E d \in {Unset} \cup (0 .. MaxEnvDelay),
       m \in {Unset} \cup (0 .. MaxEnvMaxDelay),
       b \in {Unset} \cup (0 .. MaxEnvMultiplier) :
        InitWith([UnsetEnv EXCEPT !.initialDelayMs = d, !.maxDelayMs = m,
                                  !.backoffMultiplier = b])

NextDelay ==
    /\ attemptNumber < MaxAttemptNumber
    /\ attemptNumber' = attemptNumber + 1
    /\ prevDelayMs' = delayMs
    /\ delayMs' = calculateRetryDelay(retryConfig, attemptNumber')
    /\ UNCHANGED <<ledgerVars, lastOutcome, tasks, procState, shutdown, restarts, configVars>>

SpecBackoff == InitBackoff /\ [][NextDelay]_vars

\* the steps of the tasks of one process
TaskStep ==
    \/ \E p \in Paths, ev \in Events, kind \in Kinds : HandleFileChange(p, ev, kind)
    \/ \E i \in 1 .. MaxTasks : SettleDone(i)
    \/ \E i \in 1 .. MaxTasks : AccessOk(i)
    \/ \E i \in 1 .. MaxTasks, ok \in BOOLEAN : EnsureDirDone(i, ok)
    \/ \E i \in 1 .. MaxTasks, w \in WriteOutcomes : UploadOk(i, w)
    \/ \E i \in 1 .. MaxTasks : RetryableFail(i)
    \/ \E i \in 1 .. MaxTasks : FinalFail(i)
    \/ \E i \in 1 .. MaxTasks : BackoffDone(i)

\* One process with FTP_MAX_RETRIES=1 that is sent SIGINT at any moment.
InitShutdown == InitWith([UnsetEnv EXCEPT !.maxRetries = 1])

NextShutdown ==
    \/ TaskStep
    \/ \E w \in WriteOutcomes : Sigint(w)
    \/ WatcherClosed

SpecShutdown == InitShutdown /\ [][NextShutdown]_vars

\* One process for every FTP_MAX_RETRIES: not set, or 0, 1, ...
InitConfig ==
    \E r \in {Unset} \cup (0 .. MaxEnvRetries) : InitWith([UnsetEnv EXCEPT !.maxRetries = r])

SpecConfig == InitConfig /\ [][TaskStep]_vars

\* a call of the FTP client made by task i returns: it resolves or rejects
ClientReturns(i) ==
    \/ AccessOk(i)
    \/ \E ok \in BOOLEAN : EnsureDirDone(i, ok)
    \/ \E w \in WriteOutcomes : UploadOk(i, w)
    \/ RetryableFail(i)
    \/ FinalFail(i)

\* SpecConfig where every timer fires and every call of the FTP client returns
SpecTermination ==
    /\ SpecConfig
    /\ \A i \in 1 .. MaxTasks :
          WF_vars(SettleDone(i)) /\ WF_vars(BackoffDone(i)) /\ WF_vars(ClientReturns(i))

\* One process with FTP_MAX_RETRIES=2 for several backoff settings: the delays
\* not set, a maximum below the initial delay, a multiplier of 1.5.
InitSchedule ==
    \E d \in {Unset, MaxEnvDelay}, m \in {Unset, MaxEnvDelay - 1}, b \in {Unset, MaxEnvMultiplier - 2} :
        InitWith([maxRetries |-> 2, initialDelayMs |-> d, maxDelayMs |-> m,
                  backoffMultiplier |-> b])

SpecSchedule == InitSchedule /\ [][TaskStep]_vars

\* One process with FTP_MAX_RETRIES=1 started on a ledger file of any kind.
LedgerFiles ==
    {[kind |-> k, data |-> <<>>] : k \in FileKinds \ {"string"}}
    \cup {[kind |-> "json", data |-> d] :
            d \in {<<"a.txt">>, <<"a.txt", "a.txt">>, <<"sub/b.txt", "a.txt">>}}
    \cup {[kind |-> "string", data |-> d] : d \in {<<>>, <<"a">>, <<"a", "b", "a">>}}

InitLoad == \E d \in LedgerFiles : InitFrom([UnsetEnv EXCEPT !.maxRetries = 1], d)

SpecLoad == InitLoad /\ [][TaskStep]_vars

----------------------------------------------------------------------------
\* Properties.

InLedger(p) == p \in Range(uploadedFiles)
OnDisk(p) == disk.kind = "json" /\ p \in Range(disk.data)

\* task i's current attempt fails in this step
AttemptFails(i) ==
    /\ i \in DOMAIN tasks /\ i \in DOMAIN tasks'
    /\ tasks[i].pc \in {"access", "uploadFrom"}
    /\ tasks'[i].pc \in {"backoff", "exhausted"}

\* task i's transfer succeeds in this step
TransferSucceeds(i) ==
    /\ i \in DOMAIN tasks /\ i \in DOMAIN tasks'
    /\ tasks[i].pc = "uploadFrom"
    /\ tasks'[i].wrote

\* C1. Retry exhaustion: a task never makes more than maxRetries + 1 attempts; a
\* task is Exhausted exactly when maxRetries + 1 attempts were made and all
\* failed, the failure then reached handleFileChange's catch, and no failing
\* attempt changes the ledger, in memory or on disk.
RetryExhaustionState ==
    \A i \in DOMAIN tasks :
        /\ tasks[i].calls <= retryConfig.maxRetries + 1
        /\ tasks[i].pc = "exhausted" =>
              /\ tasks[i].calls = retryConfig.maxRetries + 1
              /\ tasks[i].attempt = retryConfig.maxRetries
              /\ tasks[i].error = "logged"
              /\ ~tasks[i].wrote
        /\ ~tasks[i].wrote => tasks[i].pc # "succeeded"
RetryExhaustion ==
    /\ []RetryExhaustionState
    /\ [][\A i \in 1 .. MaxTasks :
            AttemptFails(i) => uploadedFiles' = uploadedFiles /\ disk' = disk]_vars

\* C1 witness: maxRetries = 2 and a task Exhausted after three attempts
RetryExhaustionWitness ==
    \E i \in DOMAIN tasks :
        /\ retryConfig.maxRetries = 2
        /\ tasks[i].pc = "exhausted"
        /\ tasks[i].calls = 3

\* C2. Stop on first success: the step in which a transfer succeeds records the
\* path and ends the task in Succeeded; a Succeeded task has made exactly
\* (index of the successful attempt) + 1 attempts, its session is closed, its
\* path is in the ledger, and it never takes another step.
StopOnFirstSuccess ==
    /\ [](\A i \in DOMAIN tasks :
            tasks[i].pc = "succeeded" =>
                /\ InLedger(tasks[i].path)
                /\ tasks[i].calls = tasks[i].attempt + 1
                /\ tasks[i].client = "closed")
    /\ [][\A i \in 1 .. MaxTasks :
            /\ TransferSucceeds(i) =>
                  tasks'[i].pc = "succeeded" /\ InLedger(tasks[i].path)'
            /\ (i \in DOMAIN tasks /\ i \in DOMAIN tasks'
                  /\ tasks[i].pc = "succeeded") => tasks'[i] = tasks[i]]_vars

\* C2 witness: a task that succeeded on attempt 1 with retries still left
StopOnFirstSuccessWitness ==
    \E i \in DOMAIN tasks :
        /\ tasks[i].pc = "succeeded"
        /\ tasks[i].attempt = 1
        /\ retryConfig.maxRetries > 1

\* number of client.access calls made for path p by the tasks of this process
RECURSIVE CallsUpTo(_, _)
CallsUpTo(p, n) ==
    IF n = 0 THEN 0
    ELSE CallsUpTo(p, n - 1) + (IF tasks[n].path = p THEN tasks[n].calls ELSE 0)
CallsFor(p) == CallsUpTo(p, Len(tasks))

\* C3. Idempotence: an `add` event for a path the ledger contains at decision
\* time is skipped, makes no Transfer Client call and opens no session, and
\* stays skipped; deciding it leaves the number of calls for the path as it was.
Idempotence ==
    /\ [](\A i \in DOMAIN tasks :
            (tasks[i].event = "add" /\ tasks[i].inLedger) =>
                /\ tasks[i].pc = "skipped"
                /\ tasks[i].calls = 0
                /\ tasks[i].client = "none")
    /\ [][\A p \in Paths :
            (/\ Len(tasks') = Len(tasks) + 1
             /\ tasks'[Len(tasks')].path = p
             /\ tasks'[Len(tasks')].event = "add"
             /\ InLedger(p)) => CallsFor(p)' = CallsFor(p)]_vars

\* C3 witness: two `add` events for one path, the first uploaded with one call,
\* the second skipped
IdempotenceWitness ==
    \E i, j \in DOMAIN tasks :
        /\ i < j
        /\ tasks[i].path = tasks[j].path
        /\ tasks[i].event = "add" /\ tasks[j].event = "add"
        /\ tasks[i].pc = "succeeded"
        /\ tasks[j].pc = "skipped" /\ tasks[j].inLedger /\ tasks[j].kind = "file"
        /\ CallsFor(tasks[i].path) = 1

\* C4. Modification override: a `change` event for a path that is a regular file
\* at decision time is never skipped, in the ledger or not: it takes the settle
\* delay and then, unless the process is killed first, makes an upload attempt.
ModificationOverride ==
    /\ [](\A i \in DOMAIN tasks :
            (tasks[i].event = "change" /\ tasks[i].kind = "file") =>
                tasks[i].pc # "skipped" /\ tasks[i].settled)
    /\ \A i \in 1 .. MaxTasks :
            (i \in DOMAIN tasks /\ tasks[i].event = "change" /\ tasks[i].kind = "file")
                ~> (i \notin DOMAIN tasks \/ tasks[i].calls >= 1)

\* C4 witness: a `change` event for a path already in the ledger has made an
\* upload attempt
ModificationOverrideWitness ==
    \E i \in DOMAIN tasks :
        /\ tasks[i].event = "change" /\ tasks[i].kind = "file" /\ tasks[i].inLedger
        /\ tasks[i].calls >= 1

\* C5. Deletion race: an event whose path is absent, or is not a regular file,
\* at decision time is skipped: no Transfer Client call, no error, no settle
\* delay; and the deciding step leaves the ledger and the ledger file unchanged.
DeletionRace ==
    /\ [](\A i \in DOMAIN tasks :
            tasks[i].kind \in {"absent", "dir"} =>
                /\ tasks[i].pc = "skipped"
                /\ tasks[i].calls = 0
                /\ tasks[i].client = "none"
                /\ tasks[i].error = "none"
                /\ ~tasks[i].settled
                /\ ~tasks[i].wrote)
    /\ [][Len(tasks') = Len(tasks) + 1 =>
            uploadedFiles' = uploadedFiles /\ disk' = disk]_vars

\* C5 witness: a `change` and an `add` event skipped, one for an absent path and
\* one for a directory
DeletionRaceWitness ==
    \E i, j \in DOMAIN tasks :
        /\ tasks[i].kind = "absent" /\ tasks[i].event = "change"
        /\ tasks[j].kind = "dir" /\ tasks[j].event = "add"
        /\ tasks[i].pc = "skipped" /\ tasks[j].pc = "skipped"

\* C6 as claimed: a path is in the ledger iff its most recent upload succeeded
LedgerIffLastSucceeded ==
    \A p \in Paths : InLedger(p) <=> lastOutcome[p] = "succeeded"

\* C6 amended. The in-memory ledger holds exactly the paths loaded from the
\* ledger file at process start and the paths of the tasks that succeeded since;
\* a later Exhausted task removes nothing.
LedgerIsLoadedPlusSucceeded ==
    Range(uploadedFiles) =
        Range(loadedAtStart) \cup
        {tasks[i].path : i \in {j \in DOMAIN tasks : tasks[j].pc = "succeeded"}}

\* C6 witness: a path uploaded by one task, whose later `change` task ended
\* Exhausted, is still in the ledger
LedgerKeepsPathAfterExhausted ==
    \E i, j \in DOMAIN tasks :
        /\ i < j /\ tasks[i].path = tasks[j].path
        /\ tasks[i].pc = "succeeded"
        /\ tasks[j].event = "change" /\ tasks[j].inLedger /\ tasks[j].pc = "exhausted"
        /\ lastOutcome[tasks[j].path] = "exhausted"
        /\ InLedger(tasks[j].path)

\* C7. Success persistence: while no write of the ledger file has failed, every
\* path some upload transferred is in the file and in what a fresh process
\* loads from it; and an `add` event for such a path that is a regular file is
\* skipped with no upload call, in the process that uploaded it and in a fresh
\* one.
SuccessPersistence ==
    /\ [](~persistFailed =>
            \A p \in confirmed :
                /\ OnDisk(p)
                /\ p \in Range(loadUploadedFiles(disk))
                /\ InLedger(p))
    /\ [][(/\ ~persistFailed
           /\ Len(tasks') = Len(tasks) + 1
           /\ tasks'[Len(tasks')].event = "add"
           /\ tasks'[Len(tasks')].path \in confirmed)
            => /\ tasks'[Len(tasks')].pc = "skipped"
               /\ tasks'[Len(tasks')].calls = 0]_vars

\* C7 witness: after a restart, an `add` event for a regular file that an
\* earlier process uploaded is skipped without a call
SuccessPersistenceWitness ==
    /\ restarts >= 1
    /\ ~persistFailed
    /\ \E i \in DOMAIN tasks :
        /\ tasks[i].event = "add" /\ tasks[i].kind = "file"
        /\ tasks[i].path \in confirmed
        /\ tasks[i].path \in Range(loadedAtStart)
        /\ tasks[i].pc = "skipped" /\ tasks[i].calls = 0
    /\ \A i \in DOMAIN tasks : tasks[i].pc # "succeeded"

\* C9 as claimed: no two tasks for the same path are in progress together
PerPathMutualExclusion ==
    \A i, j \in DOMAIN tasks :
        (i # j /\ tasks[i].path = tasks[j].path) =>
            ~(tasks[i].pc \in Active /\ tasks[j].pc \in Active)

\* C10. Error isolation: a failing attempt, the last one included, changes
\* nothing but its own task: the other tasks, the ledger and its file stay as
\* they were and the process keeps running; the error of an Exhausted task was
\* caught by handleFileChange; and events after an abandoned task are still
\* accepted and decided by the same rule.
ErrorIsolation ==
    /\ [](/\ procState = "running"
          /\ \A i \in DOMAIN tasks :
                /\ tasks[i].error \in {"none", "logged"}
                /\ tasks[i].pc = "exhausted" => tasks[i].error = "logged"
                /\ tasks[i].afterAbandon =>
                      tasks[i].pc # "skipped" \/ tasks[i].kind # "file"
                          \/ (tasks[i].inLedger /\ tasks[i].event = "add"))
    /\ [][\A i \in 1 .. MaxTasks :
            AttemptFails(i) =>
                /\ procState' = "running"
                /\ uploadedFiles' = uploadedFiles /\ disk' = disk
                /\ \A j \in DOMAIN tasks : j # i => tasks'[j] = tasks[j]]_vars

\* C10 witness: an event that arrived after a task was abandoned has been
\* uploaded
ErrorIsolationWitness ==
    \E i, j \in DOMAIN tasks :
        /\ i < j
        /\ tasks[i].pc = "exhausted"
        /\ tasks[j].afterAbandon /\ tasks[j].pc = "succeeded"

\* the retry configuration is one the data model allows
ValidRetryConfig(cfg) ==
    /\ cfg.initialDelayMs >= 0
    /\ cfg.maxDelayMs >= cfg.initialDelayMs
    /\ cfg.backoffMultiplier >= MultDen

\* C8. Backoff formula: for a valid retry configuration the delay computed for
\* attempt index n is initialDelay * multiplier^n when that is at most maxDelay
\* and maxDelay otherwise; it never exceeds maxDelay, and it is at least the
\* delay computed for n - 1.
BackoffFormula ==
    ValidRetryConfig(retryConfig) =>
        LET n    == attemptNumber
            num  == retryConfig.initialDelayMs * Pow(retryConfig.backoffMultiplier, n)
            den  == Pow(MultDen, n)
            cap  == retryConfig.maxDelayMs
        IN /\ delayMs[2] > 0
           /\ num <= cap * den => delayMs[1] * den = num * delayMs[2]
           /\ num >= cap * den => delayMs[1] = cap * delayMs[2]
           /\ delayMs[1] <= cap * delayMs[2]
           /\ prevDelayMs[1] * delayMs[2] <= delayMs[1] * prevDelayMs[2]

\* C8 witness: multiplier 1.5, the delay grows from attempt 0 to 1 and is capped
\* at maxDelay at attempt 2
BackoffFormulaWitness ==
    /\ ValidRetryConfig(retryConfig)
    /\ retryConfig.backoffMultiplier = 3
    /\ attemptNumber = 2
    /\ delayMs = <<retryConfig.maxDelayMs, 1>>
    /\ prevDelayMs[1] < retryConfig.maxDelayMs * prevDelayMs[2]
    /\ retryConfig.initialDelayMs * prevDelayMs[2] < prevDelayMs[1]

\* the paths of the ledger file as loadUploadedFiles would read them
DiskPaths == Range(loadUploadedFiles(disk))

GracefulShutdownState ==
    /\ procState \in {"closing", "exited"} => shutdown.signalled /\ shutdown.saves >= 1
    /\ procState = "exited" /\ ~shutdown.failed =>
          /\ loadUploadedFiles(disk) = uploadedFiles
          /\ shutdown.ledger \subseteq DiskPaths
LedgerLoadFallback ==
    /\ procState = "running"
    /\ tasks = <<>> =>
          /\ disk.kind = "json" => Range(uploadedFiles) = Range(disk.data)
          /\ disk.kind # "json" => uploadedFiles = <<>>
    /\ \A i \in DOMAIN tasks :
          (loadedAtStart = <<>> /\ tasks[i].event = "add" /\ tasks[i].kind = "file")
              => \/ tasks[i].settled
                 \/ \E j \in 1 .. i - 1 : tasks[j].path = tasks[i].path /\ tasks[j].wrote

\* the retry budget as configured: FTP_MAX_RETRIES, or 3 when it is not set
ConfiguredMaxRetries ==
    IF env.maxRetries = Unset THEN DefaultMaxRetries ELSE env.maxRetries

\* C13 as stated. Configured retry budget: a task retries at most the
\* configured number of times, is Exhausted after exactly that many retries,
\* and with a budget of 0 makes one attempt, with no retry and no backoff.
ConfiguredRetryBudget ==
    \A i \in DOMAIN tasks :
        /\ tasks[i].attempt <= ConfiguredMaxRetries
        /\ tasks[i].calls <= ConfiguredMaxRetries + 1
        /\ tasks[i].pc = "exhausted" => tasks[i].attempt = ConfiguredMaxRetries
        /\ ConfiguredMaxRetries = 0 => tasks[i].pc # "backoff" /\ tasks[i].sleeps = <<>>

\* the suspensions of task i so far are those of its retries, in order:
\* calculateRetryDelay(0), calculateRetryDelay(1), ...
ScheduleOf(i) ==
    /\ Len(tasks[i].sleeps) = tasks[i].attempt
    /\ \A k \in 1 .. Len(tasks[i].sleeps) :
          tasks[i].sleeps[k] = calculateRetryDelay(retryConfig, k - 1)

\* initialDelayMs capped by maxDelayMs
CappedInitialDelay ==
    RatMin(<<retryConfig.initialDelayMs, 1>>, <<retryConfig.maxDelayMs, 1>>)

\* a suspension of task i begins only in the step in which its attempt failed,
\* and an attempt k > 0 begins only when that suspension ends
ScheduleStep(i) ==
    /\ (i \in DOMAIN tasks' /\ tasks'[i].pc = "backoff"
           /\ (i \notin DOMAIN tasks \/ tasks[i].pc # "backoff"))
          => /\ AttemptFails(i)
             /\ tasks'[i].attempt = tasks[i].attempt + 1
             /\ tasks'[i].sleeps =
                    Append(tasks[i].sleeps, calculateRetryDelay(retryConfig, tasks[i].attempt))
    /\ (i \in DOMAIN tasks /\ i \in DOMAIN tasks' /\ tasks'[i].calls # tasks[i].calls)
          => /\ tasks'[i].sleeps = tasks[i].sleeps
             /\ \/ tasks[i].pc = "settle" /\ tasks'[i].attempt = 0
                \/ tasks[i].pc = "backoff" /\ tasks'[i].attempt = tasks[i].attempt

\* C14 as stated. Backoff schedule: no suspension before attempt 0, attempt
\* k > 0 after a suspension of calculateRetryDelay(k - 1) begun when attempt
\* k - 1 failed; a task that fails attempt 0 and succeeds on attempt 1 has
\* exactly one warning, one suspension of the capped initial delay, and its
\* path in the ledger.
BackoffScheduleOneWarning ==
    \A i \in DOMAIN tasks :
        /\ ScheduleOf(i)
        /\ (tasks[i].pc = "succeeded" /\ tasks[i].attempt = 1) =>
              /\ tasks[i].warnings = 1
              /\ tasks[i].sleeps = <<CappedInitialDelay>>
              /\ InLedger(tasks[i].path)

\* C14. Backoff schedule: no suspension before attempt 0, attempt k > 0 after
\* a suspension of calculateRetryDelay(k - 1) begun when attempt k - 1 failed;
\* a task that fails attempt 0 and succeeds on attempt 1 has exactly one retry
\* warning, besides one warning for each directory creation that failed, one
\* suspension of the capped initial delay, and its path in the ledger.
BackoffScheduleState ==
    \A i \in DOMAIN tasks :
        /\ ScheduleOf(i)
        /\ tasks[i].warnings = tasks[i].attempt + tasks[i].dirWarnings
        /\ (tasks[i].pc = "succeeded" /\ tasks[i].attempt = 1) =>
              /\ tasks[i].warnings = 1 + tasks[i].dirWarnings
              /\ tasks[i].sleeps = <<CappedInitialDelay>>
              /\ InLedger(tasks[i].path)
BackoffSchedule ==
    /\ []BackoffScheduleState
    /\ [][\A i \in 1 .. MaxTasks : ScheduleStep(i)]_vars

\* C14 witness: a task failed attempt 0 and succeeded on attempt 1 with one
\* warning and one suspension of the initial delay capped by a smaller maximum
BackoffScheduleWitness ==
    \E i \in DOMAIN tasks :
        /\ tasks[i].pc = "succeeded"
        /\ tasks[i].attempt = 1
        /\ tasks[i].warnings = 1
        /\ retryConfig.maxDelayMs < retryConfig.initialDelayMs
        /\ tasks[i].sleeps = <<<<retryConfig.maxDelayMs, 1>>>>
        /\ InLedger(tasks[i].path)

\* sessions of task i that were opened and not closed
OpenSessions(i) == tasks[i].calls - tasks[i].closes

\* C15. Session independence: the session of an attempt is the Client made in
\* that iteration of the loop, every earlier session of the task is closed
\* before the next attempt or a terminal state, a task has at most one open
\* session, and none once it has terminated.
SessionIndependenceState ==
    \A i \in DOMAIN tasks :
        /\ OpenSessions(i) \in {0, 1}
        /\ tasks[i].pc \in {"access", "ensureDir", "uploadFrom"} =>
              /\ tasks[i].client = "open"
              /\ tasks[i].clientId = tasks[i].attempt
              /\ tasks[i].closes = tasks[i].attempt
              /\ OpenSessions(i) = 1
        /\ tasks[i].pc = "backoff" =>
              /\ tasks[i].client = "idle"
              /\ tasks[i].clientId = tasks[i].attempt
              /\ OpenSessions(i) = 0
        /\ tasks[i].pc \in {"succeeded", "exhausted"} =>
              /\ tasks[i].client = "closed"
              /\ OpenSessions(i) = 0
        /\ tasks[i].pc \in {"settle", "skipped"} =>
              /\ tasks[i].client = "none"
              /\ tasks[i].calls = 0
SessionIndependence ==
    /\ []SessionIndependenceState
    /\ [][\A i \in 1 .. MaxTasks :
            /\ (AttemptFails(i) \/ TransferSucceeds(i)) =>
                  tasks'[i].closes = tasks[i].closes + 1
            /\ (i \in DOMAIN tasks /\ i \in DOMAIN tasks'
                   /\ tasks'[i].attempt # tasks[i].attempt) =>
                  /\ tasks'[i].clientId # tasks[i].clientId
                  /\ tasks'[i].client = "idle"]_vars

\* C15 witness: a task succeeded on its third attempt, with three sessions
\* opened and three closed
SessionIndependenceWitness ==
    \E i \in DOMAIN tasks :
        /\ tasks[i].pc = "succeeded"
        /\ tasks[i].attempt = 2
        /\ tasks[i].calls = 3
        /\ tasks[i].closes = 3

\* C16. Directory-creation failure is non-fatal: whatever client.ensureDir
\* answers, the task goes on to client.uploadFrom in the same attempt with the
\* same session; an attempt fails, and a retry is consumed, only in a step
\* where client.access or client.uploadFrom rejects.
DirectoryFailureNonFatal ==
    [][\A i \in 1 .. MaxTasks :
          (i \in DOMAIN tasks /\ i \in DOMAIN tasks') =>
              /\ (tasks[i].pc = "ensureDir" /\ tasks'[i] # tasks[i]) =>
                    /\ tasks'[i].pc = "uploadFrom"
                    /\ tasks'[i].attempt = tasks[i].attempt
                    /\ tasks'[i].calls = tasks[i].calls
                    /\ tasks'[i].closes = tasks[i].closes
                    /\ tasks'[i].clientId = tasks[i].clientId
                    /\ tasks'[i].client = "open"
              /\ (tasks'[i].attempt # tasks[i].attempt
                     \/ (tasks'[i].pc = "exhausted" /\ tasks[i].pc # "exhausted")) =>
                    /\ tasks[i].pc \in {"access", "uploadFrom"}
                    /\ tasks'[i].dirWarnings = tasks[i].dirWarnings]_vars

\* C16 witness: a directory creation failed and the task Succeeded on attempt
\* 0, with one session
DirectoryFailureNonFatalWitness ==
    \E i \in DOMAIN tasks :
        /\ tasks[i].dirWarnings = 1
        /\ tasks[i].pc = "succeeded"
        /\ tasks[i].attempt = 0
        /\ tasks[i].calls = 1

\* C17. Persist failure is non-fatal: a task whose write of the ledger file
\* failed is Succeeded with no error and a closed session, its path is in the
\* in-memory set, the process goes on, and every add event for that path that
\* arrives later in the same process is skipped without a call.
PersistFailureNonFatalState ==
    \A i \in DOMAIN tasks :
        tasks[i].saveFailed =>
            /\ tasks[i].pc = "succeeded"
            /\ tasks[i].error = "none"
            /\ tasks[i].client = "closed"
            /\ InLedger(tasks[i].path)
            /\ procState # "crashed"
PersistFailureNonFatal ==
    /\ []PersistFailureNonFatalState
    /\ [][Len(tasks') = Len(tasks) + 1 =>
            LET new == tasks'[Len(tasks')]
            IN (new.event = "add" /\ \E i \in DOMAIN tasks :
                                        tasks[i].saveFailed /\ tasks[i].path = new.path)
                  => new.pc = "skipped" /\ new.calls = 0]_vars

\* C17 witness: the write failed for a task, and a later add event for the same
\* regular file was skipped
PersistFailureNonFatalWitness ==
    \E i, j \in DOMAIN tasks :
        /\ i < j
        /\ tasks[i].saveFailed
        /\ ~OnDisk(tasks[i].path)
        /\ tasks[j].path = tasks[i].path
        /\ tasks[j].event = "add"
        /\ tasks[j].kind = "file"
        /\ tasks[j].inLedger
        /\ tasks[j].pc = "skipped"

\* C18. Serialized ledger mutation with no lost update: a record (add to the
\* set, write of the whole set) is one step in which no other task moves and
\* no path is dropped; the in-memory set contains the path of every Succeeded
\* task, and while no write has failed the ledger file equals the in-memory set.
NoLostUpdateState ==
    /\ \A i \in DOMAIN tasks : tasks[i].wrote => InLedger(tasks[i].path)
    /\ ~persistFailed => loadUploadedFiles(disk) = uploadedFiles
NoLostUpdate ==
    /\ []NoLostUpdateState
    /\ [][\A i \in 1 .. MaxTasks :
            TransferSucceeds(i) =>
                /\ \A j \in DOMAIN tasks : j # i => tasks'[j] = tasks[j]
                /\ Range(uploadedFiles') = Range(uploadedFiles) \cup {tasks[i].path}
                /\ ~tasks'[i].saveFailed => disk' = FileOf(uploadedFiles')]_vars

\* C18 witness: two tasks for different files in flight together have both
\* recorded, the later one first, and the file holds both paths
NoLostUpdateWitness ==
    /\ Len(tasks) = 2
    /\ tasks[1].pc = "succeeded" /\ tasks[2].pc = "succeeded"
    /\ tasks[1].path # tasks[2].path
    /\ uploadedFiles = <<tasks[2].path, tasks[1].path>>
    /\ ~persistFailed
    /\ disk = FileOf(uploadedFiles)

\* the next step of task j can be taken now
StepEnabled(j) ==
    CASE tasks[j].pc = "settle"     -> ENABLED SettleDone(j)
      [] tasks[j].pc = "backoff"    -> ENABLED BackoffDone(j)
      [] tasks[j].pc = "access"     -> ENABLED AccessOk(j)
      [] tasks[j].pc = "ensureDir"  -> ENABLED EnsureDirDone(j, TRUE)
      [] tasks[j].pc = "uploadFrom" -> ENABLED UploadOk(j, "ok")
      [] OTHER                      -> TRUE

\* C19. Non-blocking suspension: while a task is in its settle delay or in a
\* backoff, the watcher can deliver an event for any file and every other
\* task can take its next step; no task waits for the task of another file.
NonBlockingSuspension ==
    \A i \in DOMAIN tasks :
        (procState = "running" /\ tasks[i].pc \in {"settle", "backoff"}) =>
            /\ Len(tasks) < MaxTasks =>
                  \A p \in Paths, ev \in Events : ENABLED HandleFileChange(p, ev, "file")
            /\ \A j \in DOMAIN tasks : j # i => StepEnabled(j)

\* C19 witness: the first task is still in its settle delay, and the task of an
\* event for another file that arrived after it is already Succeeded
NonBlockingSuspensionWitness ==
    /\ Len(tasks) = 2
    /\ tasks[1].pc = "settle"
    /\ tasks[2].path # tasks[1].path
    /\ tasks[2].pc = "succeeded"
    /\ InLedger(tasks[2].path)

\* C20. Task termination: when every timer fires and every call of the FTP
\* client returns, every task reaches skipped, succeeded or exhausted, and no
\* task makes more than maxRetries + 1 attempts.
TaskTermination ==
    /\ \A i \in 1 .. MaxTasks :
          (i \in DOMAIN tasks) ~> (i \in DOMAIN tasks /\ tasks[i].pc \in Terminal)
    /\ [](\A i \in DOMAIN tasks :
            /\ tasks[i].calls <= retryConfig.maxRetries + 1
            /\ tasks[i].pc \in Terminal \cup Active)

\* C20 witness: with the default budget of 3 retries one task ended Exhausted
\* after four attempts and another Succeeded
TaskTerminationWitness ==
    \E i, j \in DOMAIN tasks :
        /\ retryConfig.maxRetries = DefaultMaxRetries
        /\ tasks[i].pc = "exhausted"
        /\ tasks[i].calls = DefaultMaxRetries + 1
        /\ tasks[j].pc = "succeeded"

============================================================================
